---- MODULE Spec2Model ----
(***************************************************************************)
(* A model of the three programs of the crawler repository:                *)
(*   cwr.py               the asyncio/aiohttp crawler (class               *)
(*                        CivilicaScraper), variables self_* and conf,     *)
(*   scr.py               the threaded selenium crawler,                   *)
(*   redirect_resolver.py the redirect resolver with checkpoints.          *)
(* The variable prog says which program the behaviour is a run of; the     *)
(* variables of the other programs keep their initial values.              *)
(***************************************************************************)
EXTENDS Integers, Sequences, FiniteSets, TLC

\* ------------------------------------------------------------ bounds
\* The most collection ids a run is given (len(ids)).
NumColl == 2
\* The most ItemRefs a listing page holds.
MaxItems == 2
\* The size of a run: its collection ids and the ItemRefs the site serves it,
\* all listing pages together, are at most this many.
WorkBudget == 4
\* The value --workers is given.
ArgWorkers == 1
\* scr.py: the largest value --retries is given.
MaxRetriesArg == 2
\* scr.py: the largest value --workers is given.
ScrWorkers == 2
\* scr.py: the value --save-every is given.
ScrSaveEvery == 2
\* redirect_resolver.py: the most rows of a slice.
MaxRows == 3
\* redirect_resolver.py: the value save_every is given.
RrSaveEvery == 2

\* ------------------------------------------------- program constants
MAX_RETRIES == 3
\* cwr.py:31 sets 500; the model scales the flush threshold down so that
\* a run reaches it.
SAVE_EVERY == 2

VARIABLES
    prog,                 \* which program runs: "cwr", "scr" or "rr"
    \* ---- cwr.py
    args_workers,         \* args.workers (--workers)
    ids,                  \* the sliced list of collection ids
    run_pc,               \* position of CivilicaScraper.run
    conf,                 \* per collection: the process_conference coroutine
    self_result_rows,     \* self.result_rows
    self_failed_urls,     \* self.failed_urls
    self_processed_count, \* self.processed_count
    output_csv,           \* the file self.output_csv
    failed_urls_log,      \* the file self.failed_urls_log
    served,               \* ItemRefs the listing pages have served so far
    ev,                   \* the last fetch: what was asked and what came back
    repeats,              \* the site lists one pinned item first on every page
    range,                \* args.start and args.end (--start, --end)
    listing_log,          \* per collection: the listing fetches and their outcomes
    appended,             \* every row appended to the result buffer, in order
    prior_failed,         \* the failure log as the end of the run found it
    \* ---- scr.py
    args,                 \* the parsed arguments: parallel, workers, retries, save_every
    main_pc,              \* position of main
    walker,               \* per collection: the process_conference call
    result_rows,          \* the global result_rows
    failed_urls,          \* the global failed_urls
    result_lock,          \* the holder of result_lock, 0 when free
    failed_urls_lock,     \* the holder of failed_urls_lock, 0 when free
    args_output,          \* the file args.output
    args_failed,          \* the file args.failed
    \* ---- redirect_resolver.py
    rr_pc,                \* position of main
    sliced_df,            \* the url column of sliced_df, row by row
    existing,             \* the file at output_csv as main found it
    output_file,          \* the file at output_csv
    already_done,         \* already_done
    future_to_url,        \* the submitted futures, in submission order
    results,              \* results
    completed_count       \* completed_count

\* ids, served and ev are the same notions in cwr.py and scr.py and are shared.
cwrVars == <<args_workers, run_pc, conf, self_result_rows, self_failed_urls,
             self_processed_count, output_csv, failed_urls_log>>

scrVars == <<args, main_pc, walker, result_rows, failed_urls, result_lock,
             failed_urls_lock, args_output, args_failed>>

rrVars == <<rr_pc, sliced_df, existing, output_file, already_done, future_to_url,
            results, completed_count>>

\* What a run is given and keeps.
inputVars == <<prog, repeats, range>>

\* The records of what a run has done.
histVars == <<listing_log, appended, prior_failed>>

vars == <<inputVars, histVars, ids, served, ev, cwrVars, scrVars, rrVars>>

\* ------------------------------------------------------------ values
Coll == 1..NumColl

\* What a fetch can come back with: an HTTP status, or "timeout" for the
\* exception aiohttp raises (asyncio.TimeoutError, ClientError).
Statuses == {"200", "503", "timeout"}

\* status_forcelist of the Retry strategy, and the timeout: the transient
\* conditions.
Transient == {"429", "500", "502", "503", "504", "timeout"}

\* The content of an item page, as far as parse_article_page tells it apart:
\*   "full"      every selector matches,
\*   "bare"      no selector matches,
\*   "malformed" the citation blockquote is there and holds no <p>.
Contents == {"full", "bare", "malformed"}

ListingUrl(c, page) == [kind |-> "listing", cid |-> c, page |-> page, idx |-> 0]
ArticleUrl(c, page, i) == [kind |-> "item", cid |-> c, page |-> page, idx |-> i]

\* The link of article i of a listing page as parse_article_list and the
\* soup of process_conference read it off the page: the site's own link for
\* that place, or, on a site that pins one article to the top of every page,
\* the pinned article's link in the first place.
Link(c, page, i) ==
    IF repeats /\ i = 1 THEN ArticleUrl(c, 1, 1) ELSE ArticleUrl(c, page, i)

\* One entry of listing_log: the page asked for, whether the fetch gave a
\* page to parse, and the ItemRefs parsed from it.
ListingEntry(page, ok, n) == [page |-> page, ok |-> ok, n |-> n]

NoEvent == [kind |-> "none", url |-> ListingUrl(0, 0), status |-> "200",
            content |-> "bare", attempts |-> 0]

HEADER == [header |-> TRUE]

NoFile == [exists |-> FALSE, lines |-> <<>>]

\* What may be at the output path when a run starts: nothing, or the output
\* of an earlier run.
PriorOutputs ==
    {NoFile, [exists |-> TRUE, lines |-> <<HEADER, [cid |-> 0, link |-> ArticleUrl(0, 1, 1)]>>]}

\* ------------------------------------------------- cwr.py: helpers

\* create_session: the requests session with the Retry strategy. Nothing in
\* cwr.py calls it: the fetches go through the aiohttp session of run().
create_session == [total |-> MAX_RETRIES, status_forcelist |-> Transient \ {"timeout"}]

\* The number of attempts one session.get of the aiohttp session makes.
AiohttpAttempts == 1

\* parse_article_page: the details dict, or "raise" where the code raises
\* (citation_block.find('p') is None, and .text of None is an AttributeError).
parse_article_page(content) ==
    CASE content = "full" -> [raised |-> FALSE, details |-> "fields"]
      [] content = "bare" -> [raised |-> FALSE, details |-> "defaults"]
      [] OTHER -> [raised |-> TRUE, details |-> "none"]

\* The error text of a failed fetch: str(e).
ErrorText(status) == IF status = "timeout" THEN "timeout" ELSE status

FailureRecord(c, url, err) == [conference_id |-> c, url |-> url, error |-> err]

Pending == [st |-> "pending"]
NoneResult == [st |-> "none"]
RowResult(c, link, details) == [st |-> "row", cid |-> c, link |-> link, details |-> details]

\* save_results without self.result_rows = [].
save_results_keeping_rows(file, rows) ==
    IF rows = <<>>
    THEN [file |-> file, rows |-> rows]
    ELSE [file |-> [exists |-> TRUE,
                    lines |-> (IF file.exists THEN file.lines ELSE <<HEADER>>) \o rows],
          rows |-> rows]

\* save_results: (file, rows) after the call.
save_results(file, rows) ==
    IF rows = <<>>
    THEN [file |-> file, rows |-> rows]
    ELSE [file |-> [exists |-> TRUE,
                    lines |-> (IF file.exists THEN file.lines ELSE <<HEADER>>) \o rows],
          rows |-> <<>>]

\* The rows of a gather's results cut off after the first result.
RowsOfFirstOnly(res) ==
    IF res = <<>> THEN <<>>
    ELSE IF Head(res).st = "row" THEN <<Head(res)>> ELSE <<>>

\* The rows of a gather's results, in order, None dropped.
RECURSIVE RowsOf(_)
RowsOf(res) ==
    IF res = <<>> THEN <<>>
    ELSE (IF Head(res).st = "row" THEN <<Head(res)>> ELSE <<>>) \o RowsOf(Tail(res))

InProgress(c) == conf[c].pc \in {"listing", "pacing", "items"}

IdSet == {ids[k] : k \in 1..Len(ids)}

\* ------------------------------------------------- cwr.py: actions

\* started[i] is the number of pacing sleeps that had returned when the request
\* of item i of the page began.
IdleConf == [pc |-> "idle", page |-> 1, n |-> 0, k |-> 0, res |-> <<>>, started |-> <<>>]

\* The ids sliced from the input, nothing served, no fetch made.
SharedInit ==
    /\ ids \in {[k \in 1..n |-> k] : n \in 1..NumColl}
    /\ served = 0
    /\ ev = NoEvent
    /\ range = [start |-> 0, end |-> Len(ids), end_given |-> TRUE]
    /\ listing_log = [c \in Coll |-> <<>>]
    /\ appended = <<>>
    /\ prior_failed = NoFile

\* The scraper with main at the given place.
CwInitAt(pc) ==
    /\ args_workers = ArgWorkers
    /\ run_pc = pc
    /\ conf = [c \in Coll |-> IdleConf]
    /\ self_result_rows = <<>>
    /\ self_failed_urls = <<>>
    /\ self_processed_count = 0
    /\ failed_urls_log = NoFile

\* The scraper as main has made it and run() has sliced the ids.
CwInit == CwInitAt("start")

\* run(), lines 262-274: the header is written to a truncated output file,
\* one coroutine per id is made and asyncio.gather schedules them all.
CwRunStart ==
    /\ prog = "cwr"
    /\ run_pc = "start"
    /\ output_csv' = [exists |-> TRUE, lines |-> <<HEADER>>]
    /\ conf' = [c \in Coll |-> IF c \in IdSet THEN [conf[c] EXCEPT !.pc = "ready"] ELSE conf[c]]
    /\ run_pc' = "gather"
    /\ UNCHANGED <<scrVars, rrVars>>
    /\ UNCHANGED <<inputVars, histVars, args_workers, ids, self_result_rows, self_failed_urls,
                   self_processed_count, failed_urls_log, served, ev>>

\* What admits a scheduled walk to execution: the event loop runs every task
\* gather made; args.workers is not consulted.
Admitted(c) == TRUE

\* process_conference up to its first await: page = 1 and the listing fetch.
CwConfStart(c) ==
    /\ prog = "cwr"
    /\ run_pc = "gather"
    /\ conf[c].pc = "ready"
    /\ Admitted(c)
    /\ conf' = [conf EXCEPT ![c].pc = "listing", ![c].page = 1]
    /\ UNCHANGED <<scrVars, rrVars>>
    /\ UNCHANGED <<inputVars, histVars, args_workers, ids, run_pc, self_result_rows, self_failed_urls,
                   self_processed_count, output_csv, failed_urls_log, served, ev>>

\* process_conference without its try/except: the exception ends the walk and
\* travels through asyncio.gather into run(), which ends without saving.
ListingRaisedUncaught(c, url, status) ==
    /\ conf' = [conf EXCEPT ![c].pc = "raised"]
    /\ run_pc' = "aborted"
    /\ UNCHANGED <<self_failed_urls, served>>

\* The except branch of process_conference (lines 247-250).
ListingRaised(c, url, status) ==
    /\ self_failed_urls' = Append(self_failed_urls, FailureRecord(c, url, ErrorText(status)))
    /\ conf' = [conf EXCEPT ![c].pc = "done"]
    /\ UNCHANGED <<served, run_pc>>

\* response.status != 200: break (lines 225-226).
ListingNot200(c, url, status) ==
    /\ conf' = [conf EXCEPT ![c].pc = "done"]
    /\ UNCHANGED <<self_failed_urls, served, run_pc>>

\* process_conference taking a listing without articles for a failure.
ListingOkEmptyFails(c, n) ==
    /\ Len(ids) + served + n <= WorkBudget
    /\ conf' = [conf EXCEPT ![c] =
                  IF n = 0 THEN [conf[c] EXCEPT !.pc = "done"]
                  ELSE [conf[c] EXCEPT !.pc = "pacing", !.n = n, !.k = 1, !.res = <<>>]]
    /\ served' = served + n
    /\ self_failed_urls' =
          IF n = 0
          THEN Append(self_failed_urls,
                      FailureRecord(c, ListingUrl(c, conf[c].page), "no articles"))
          ELSE self_failed_urls
    /\ UNCHANGED run_pc

\* A 200 listing with n articles (lines 227-236): none ends the walk, some
\* start the pacing loop with the first coroutine made.
ListingOk(c, n) ==
    /\ Len(ids) + served + n <= WorkBudget
    /\ conf' = [conf EXCEPT ![c] =
                  IF n = 0 THEN [conf[c] EXCEPT !.pc = "done"]
                  ELSE [conf[c] EXCEPT !.pc = "pacing", !.n = n, !.k = 1, !.res = <<>>]]
    /\ served' = served + n
    /\ UNCHANGED <<self_failed_urls, run_pc>>

\* The listing fetch of process_conference comes back.
CwListingResponse(c) ==
    /\ prog = "cwr"
    /\ conf[c].pc = "listing"
    /\ \E status \in Statuses, n \in 0..MaxItems :
        LET url == ListingUrl(c, conf[c].page) IN
        /\ status # "200" => n = 0
        /\ ev' = [kind |-> "listing", url |-> url, status |-> status,
                  content |-> "bare", attempts |-> AiohttpAttempts]
        /\ listing_log' = [listing_log EXCEPT
                             ![c] = Append(@, ListingEntry(conf[c].page, status = "200", n))]
        /\ \/ status = "timeout" /\ ListingRaised(c, url, status)
           \/ status \notin {"timeout", "200"} /\ ListingNot200(c, url, status)
           \/ status = "200" /\ ListingOk(c, n)
    /\ UNCHANGED <<scrVars, rrVars>>
    /\ UNCHANGED <<inputVars, appended, prior_failed, args_workers, ids, self_result_rows,
                   self_processed_count, output_csv, failed_urls_log>>

\* One asyncio.sleep of the pacing loop returns (lines 234-238): the next
\* coroutine object is made, or, after the last, gather makes a task of every
\* coroutine: process_article is an async def, its call runs nothing, and the
\* requests of all the items begin when gather is awaited.
CwPacing(c) ==
    /\ prog = "cwr"
    /\ conf[c].pc = "pacing"
    /\ conf' = [conf EXCEPT ![c] =
                  IF conf[c].k < conf[c].n
                  THEN [conf[c] EXCEPT !.k = conf[c].k + 1]
                  ELSE [conf[c] EXCEPT !.pc = "items",
                                       !.res = [i \in 1..conf[c].n |-> Pending],
                                       !.started = [i \in 1..conf[c].n |-> conf[c].k]]]
    /\ UNCHANGED <<scrVars, rrVars>>
    /\ UNCHANGED <<inputVars, histVars, args_workers, ids, run_pc, self_result_rows, self_failed_urls,
                   self_processed_count, output_csv, failed_urls_log, served, ev>>

\* process_article swallowing the exception without recording it.
ArticleRaisedUnrecorded(c, i, link, err) ==
    /\ conf' = [conf EXCEPT ![c].res[i] = NoneResult]
    /\ UNCHANGED <<self_failed_urls, self_processed_count>>

\* The except branch of process_article (lines 213-216).
ArticleRaised(c, i, link, err) ==
    /\ self_failed_urls' = Append(self_failed_urls, FailureRecord(c, link, err))
    /\ conf' = [conf EXCEPT ![c].res[i] = NoneResult]
    /\ UNCHANGED self_processed_count

\* The return of process_article (lines 200-212).
ArticleReturned(c, i, link, details) ==
    /\ self_processed_count' = self_processed_count + 1
    /\ conf' = [conf EXCEPT ![c].res[i] = RowResult(c, link, details)]
    /\ UNCHANGED self_failed_urls

\* process_article: the fetch of one item comes back.
CwArticleResponse(c, i) ==
    /\ prog = "cwr"
    /\ conf[c].pc = "items"
    /\ i \in 1..conf[c].n
    /\ conf[c].res[i] = Pending
    /\ \E status \in Statuses, content \in Contents :
        LET link == Link(c, conf[c].page, i)
            parsed == parse_article_page(content) IN
        /\ status # "200" => content = "bare"
        /\ ev' = [kind |-> "item", url |-> link, status |-> status,
                  content |-> content, attempts |-> AiohttpAttempts]
        /\ \/ status # "200" /\ ArticleRaised(c, i, link, ErrorText(status))
           \/ status = "200" /\ parsed.raised /\ ArticleRaised(c, i, link, "AttributeError")
           \/ status = "200" /\ ~parsed.raised /\ ArticleReturned(c, i, link, parsed.details)
    /\ UNCHANGED <<scrVars, rrVars>>
    /\ UNCHANGED <<inputVars, histVars, args_workers, ids, run_pc, self_result_rows,
                   output_csv, failed_urls_log, served>>

\* The test of line 245 with > for >=.
ReachedSaveEveryStrict(rows) == Len(rows) > SAVE_EVERY

\* len(self.result_rows) >= SAVE_EVERY (line 245).
ReachedSaveEvery(rows) == Len(rows) >= SAVE_EVERY

\* gather returns (lines 238-246): the rows are appended, the buffer is
\* flushed at SAVE_EVERY, and the next page is fetched.
CwGatherDone(c) ==
    /\ prog = "cwr"
    /\ conf[c].pc = "items"
    /\ \A i \in 1..conf[c].n : conf[c].res[i] # Pending
    /\ LET rows == self_result_rows \o RowsOf(conf[c].res)
           saved == save_results(output_csv, rows) IN
       IF ReachedSaveEvery(rows)
       THEN /\ output_csv' = saved.file
            /\ self_result_rows' = saved.rows
       ELSE /\ self_result_rows' = rows
            /\ UNCHANGED output_csv
    /\ appended' = appended \o RowsOf(conf[c].res)
    /\ conf' = [conf EXCEPT ![c] = [IdleConf EXCEPT !.pc = "listing",
                                                    !.page = conf[c].page + 1]]
    /\ UNCHANGED <<scrVars, rrVars>>
    /\ UNCHANGED <<inputVars, listing_log, prior_failed, args_workers, ids, run_pc, self_failed_urls,
                   self_processed_count, failed_urls_log, served, ev>>

\* run(), lines 274-277: every walk has returned; the remaining rows are saved.
CwRunSave ==
    /\ prog = "cwr"
    /\ run_pc = "gather"
    /\ \A c \in IdSet : conf[c].pc = "done"
    /\ LET saved == save_results(output_csv, self_result_rows) IN
       /\ output_csv' = saved.file
       /\ self_result_rows' = saved.rows
    /\ run_pc' = "failed_log"
    /\ UNCHANGED <<scrVars, rrVars>>
    /\ UNCHANGED <<inputVars, histVars, args_workers, ids, conf, self_failed_urls,
                   self_processed_count, failed_urls_log, served, ev>>

\* What may be at self.failed_urls_log when run() gets to line 279: nothing,
\* or the log of an earlier run.
CwPriorLogs ==
    {NoFile,
     [exists |-> TRUE, lines |-> <<FailureRecord(1, ListingUrl(1, 1), "timeout")>>]}

\* run(), lines 279-282: the failure log is written when there are failures;
\* to_csv opens the path for writing, whatever is there.
CwRunFailedLog ==
    /\ prog = "cwr"
    /\ run_pc = "failed_log"
    /\ \E prior \in CwPriorLogs :
        /\ prior_failed' = prior
        /\ failed_urls_log' = IF self_failed_urls # <<>>
                              THEN [exists |-> TRUE, lines |-> self_failed_urls]
                              ELSE prior
    /\ run_pc' = "done"
    /\ UNCHANGED <<scrVars, rrVars>>
    /\ UNCHANGED <<inputVars, listing_log, appended, args_workers, ids, conf, self_result_rows, self_failed_urls,
                   self_processed_count, output_csv, served, ev>>

NextCwr ==
    \/ CwRunStart
    \/ \E c \in Coll : CwConfStart(c)
    \/ \E c \in Coll : CwListingResponse(c)
    \/ \E c \in Coll : CwPacing(c)
    \/ \E c \in Coll, i \in 1..MaxItems : CwArticleResponse(c, i)
    \/ \E c \in Coll : CwGatherDone(c)
    \/ CwRunSave
    \/ CwRunFailedLog

\* ------------------------------------------------- scr.py

\* save_partial_results writing the header whether or not the file is there.
save_partial_results_header_always(file, rows) ==
    IF rows = <<>>
    THEN [file |-> file, rows |-> rows]
    ELSE [file |-> [exists |-> TRUE, lines |-> file.lines \o <<HEADER>> \o rows],
          rows |-> <<>>]

\* save_partial_results under result_lock (lines 66-78): (file, rows) after it.
save_partial_results(file, rows) ==
    IF rows = <<>>
    THEN [file |-> file, rows |-> rows]
    ELSE [file |-> [exists |-> TRUE,
                    lines |-> (IF file.exists THEN file.lines ELSE <<HEADER>>) \o rows],
          rows |-> <<>>]

\* The values of --retries, --save-every, --workers and --no-parallel that
\* the runs are given: no retries or the most; --workers is not read with
\* --no-parallel.
ArgSets ==
    {a \in [parallel : BOOLEAN, workers : 1..ScrWorkers, retries : {0, MaxRetriesArg},
            save_every : {ScrSaveEvery}] : ~a.parallel => a.workers = 1}

IdleWalker == [pc |-> "queued", page |-> 1, n |-> 0, i |-> 0, attempt |-> 1,
               local_rows |-> <<>>, after |-> "next"]

ScInitAt(A, pc) ==
    /\ args \in A
    /\ main_pc = pc
    /\ walker = [c \in Coll |-> IdleWalker]
    /\ result_rows = <<>>
    /\ failed_urls = <<>>
    /\ result_lock = 0
    /\ failed_urls_lock = 0
    /\ args_failed = NoFile

\* scr.py when main has sliced the ids.
ScInitWith(A) == ScInitAt(A, "start")

ScInit == ScInitWith(ArgSets)

\* scr.py as it stands when the run is of another program.
ScIdle == ScInitWith({[parallel |-> TRUE, workers |-> ScrWorkers, retries |-> 0,
                       save_every |-> ScrSaveEvery]})

ScRow(c, link) == [cid |-> c, link |-> link]

Running(c) == walker[c].pc \notin {"queued", "done", "raised"}

\* The URL the walker's retry_get is on: the listing page, or item i of it.
Target(c) ==
    IF walker[c].i = 0 THEN ListingUrl(c, walker[c].page)
    ELSE Link(c, walker[c].page, walker[c].i)

\* main, lines 227-235: the old output is removed and the walks are handed
\* to the pool, or walked by main one after the other.
ScMainStart ==
    /\ prog = "scr"
    /\ main_pc = "start"
    /\ args_output' = NoFile
    /\ main_pc' = "walking"
    /\ UNCHANGED <<cwrVars, rrVars>>
    /\ UNCHANGED <<inputVars, histVars, ids, served, ev, args, walker, result_rows, failed_urls,
                   result_lock, failed_urls_lock, args_failed>>

\* A walk may start: in the pool, when it heads the queue and a worker thread
\* is free; in the loop of main, when every earlier walk has returned.
MayStart(c) ==
    /\ \A d \in IdSet : d < c => walker[d].pc # "queued"
    /\ IF args.parallel
       THEN Cardinality({d \in IdSet : Running(d)}) < args.workers
       ELSE \A d \in IdSet : d < c => walker[d].pc = "done"

\* An exception leaves process_conference. In the pool the future keeps it and
\* nobody asks for it; called from main's loop, it ends main.
Escapes(c) ==
    /\ walker' = [walker EXCEPT ![c].pc = "raised"]
    /\ main_pc' = IF args.parallel THEN main_pc ELSE "aborted"

\* process_conference, lines 175-180: init_driver, page = 1, the first
\* retry_get; init_driver may raise (no driver, no browser).
ScStart(c) ==
    /\ prog = "scr"
    /\ main_pc = "walking"
    /\ c \in IdSet
    /\ walker[c].pc = "queued"
    /\ MayStart(c)
    /\ \/ /\ walker' = [walker EXCEPT ![c].pc = "get", ![c].page = 1, ![c].i = 0,
                                       ![c].attempt = 1]
          /\ UNCHANGED main_pc
       \/ Escapes(c)
    /\ UNCHANGED <<cwrVars, rrVars>>
    /\ UNCHANGED <<inputVars, histVars, ids, served, ev, args, result_rows, failed_urls,
                   result_lock, failed_urls_lock, args_output, args_failed>>

\* retry_get with range(1, args.retries + 2): one attempt too many.
InRangeOffByOne(attempt) == attempt <= args.retries + 1

\* The loop of retry_get goes on while attempt is in range(1, retries + 1).
InRange(attempt) == attempt <= args.retries

\* The item loop left after one item for the next page.
NextItemLeavesPage(w) ==
    [w EXCEPT !.pc = "get", !.page = w.page + 1, !.i = 0, !.n = 0, !.attempt = 1]

\* What follows item i of the page: the next item, or the next page's fetch.
NextItem(w) ==
    IF w.i < w.n
    THEN [w EXCEPT !.pc = "get", !.i = w.i + 1, !.attempt = 1]
    ELSE [w EXCEPT !.pc = "get", !.page = w.page + 1, !.i = 0, !.n = 0, !.attempt = 1]

\* Leaving the while loop (break): driver.quit() and the final flush.
LeaveLoop(w) ==
    IF w.local_rows # <<>>
    THEN [w EXCEPT !.pc = "extend", !.after = "done", !.i = 0, !.n = 0]
    ELSE [w EXCEPT !.pc = "done", !.i = 0, !.n = 0]

\* retry_get returned True on a listing page (lines 182-185): parse_article_list
\* gives n articles; none ends the loop, some start the item loop.
ListingLoaded(c, n) ==
    /\ Len(ids) + served + n <= WorkBudget
    /\ served' = served + n
    /\ walker' = [walker EXCEPT ![c] =
                    IF n = 0 THEN LeaveLoop(walker[c])
                    ELSE [walker[c] EXCEPT !.pc = "get", !.n = n, !.i = 1, !.attempt = 1]]
    /\ UNCHANGED main_pc

\* The test of line 199 with > for >=.
ItemLoadedStrict(c) ==
    LET w == walker[c]
        rows == Append(w.local_rows, ScRow(c, Target(c))) IN
    /\ walker' = [walker EXCEPT ![c] =
                    IF Len(rows) > args.save_every
                    THEN [w EXCEPT !.pc = "extend", !.after = "next", !.local_rows = rows]
                    ELSE [NextItem(w) EXCEPT !.local_rows = rows]]
    /\ UNCHANGED <<served, main_pc>>

\* retry_get returned True on an item (lines 187-203): the row is appended to
\* local_rows, and at save_every rows the walker goes to flush them.
ItemLoaded(c) ==
    LET w == walker[c]
        rows == Append(w.local_rows, ScRow(c, Target(c))) IN
    /\ walker' = [walker EXCEPT ![c] =
                    IF Len(rows) >= args.save_every
                    THEN [w EXCEPT !.pc = "extend", !.after = "next", !.local_rows = rows]
                    ELSE [NextItem(w) EXCEPT !.local_rows = rows]]
    /\ UNCHANGED <<served, main_pc>>

\* One attempt of retry_get (lines 97-103): driver.get succeeds and retry_get
\* returns True, or raises and the loop goes on after a sleep. After a
\* successful item fetch the extraction may raise something other than
\* NoSuchElementException, which nothing in process_conference catches.
ScAttempt(c) ==
    /\ prog = "scr"
    /\ walker[c].pc = "get"
    /\ InRange(walker[c].attempt)
    /\ \/ /\ ev' = [kind |-> Target(c).kind, url |-> Target(c), status |-> "True",
                    content |-> "bare", attempts |-> walker[c].attempt]
          /\ \/ /\ walker[c].i = 0
                /\ \E n \in 0..MaxItems :
                     /\ ListingLoaded(c, n)
                     /\ listing_log' = [listing_log EXCEPT
                            ![c] = Append(@, ListingEntry(walker[c].page, TRUE, n))]
             \/ walker[c].i > 0 /\ ItemLoaded(c) /\ UNCHANGED listing_log
             \/ walker[c].i > 0 /\ Escapes(c) /\ UNCHANGED <<served, listing_log>>
       \/ /\ walker' = [walker EXCEPT ![c].attempt = @ + 1]
          /\ UNCHANGED <<ev, served, main_pc, listing_log>>
    /\ UNCHANGED <<cwrVars, rrVars>>
    /\ UNCHANGED <<inputVars, appended, prior_failed, ids, args, result_rows, failed_urls,
                   result_lock, failed_urls_lock, args_output, args_failed>>

\* retry_get, line 104: the loop is over without a success; failed_urls_lock
\* is taken.
ScFailedLock(c) ==
    /\ prog = "scr"
    /\ walker[c].pc = "get"
    /\ ~InRange(walker[c].attempt)
    /\ failed_urls_lock = 0
    /\ failed_urls_lock' = c
    /\ walker' = [walker EXCEPT ![c].pc = "failed"]
    /\ UNCHANGED <<cwrVars, rrVars>>
    /\ UNCHANGED <<inputVars, histVars, ids, served, ev, args, main_pc, result_rows, failed_urls,
                   result_lock, args_output, args_failed>>

\* retry_get, lines 105-106: the failure is appended, the lock released and
\* False returned: a listing page ends the loop, an item is skipped.
ScFailedAppend(c) ==
    /\ prog = "scr"
    /\ walker[c].pc = "failed"
    /\ failed_urls' = Append(failed_urls, [conference_id |-> c, url |-> Target(c)])
    /\ failed_urls_lock' = 0
    /\ ev' = [kind |-> Target(c).kind, url |-> Target(c), status |-> "False",
              content |-> "bare", attempts |-> walker[c].attempt - 1]
    /\ walker' = [walker EXCEPT ![c] =
                    IF walker[c].i = 0 THEN LeaveLoop(walker[c]) ELSE NextItem(walker[c])]
    /\ listing_log' = IF walker[c].i = 0
                      THEN [listing_log EXCEPT
                              ![c] = Append(@, ListingEntry(walker[c].page, FALSE, 0))]
                      ELSE listing_log
    /\ UNCHANGED <<cwrVars, rrVars>>
    /\ UNCHANGED <<inputVars, appended, prior_failed, ids, served, args, main_pc, result_rows,
                   result_lock, args_output, args_failed>>

\* The sections entered without waiting for result_lock.
ScResultLockNoWait(c) ==
    /\ prog = "scr"
    /\ walker[c].pc \in {"extend", "save"}
    /\ result_lock' = c
    /\ walker' = [walker EXCEPT ![c].pc = IF @ = "extend" THEN "extending" ELSE "saving"]
    /\ UNCHANGED <<cwrVars, rrVars>>
    /\ UNCHANGED <<inputVars, histVars, ids, served, ev, args, main_pc, result_rows, failed_urls,
                   failed_urls_lock, args_output, args_failed>>

\* with result_lock: (lines 200 and 210) and save_partial_results, line 65.
ScResultLock(c) ==
    /\ prog = "scr"
    /\ walker[c].pc \in {"extend", "save"}
    /\ result_lock = 0
    /\ result_lock' = c
    /\ walker' = [walker EXCEPT ![c].pc = IF @ = "extend" THEN "extending" ELSE "saving"]
    /\ UNCHANGED <<cwrVars, rrVars>>
    /\ UNCHANGED <<inputVars, histVars, ids, served, ev, args, main_pc, result_rows, failed_urls,
                   failed_urls_lock, args_output, args_failed>>

\* result_rows.extend(local_rows), lines 201 and 211, and the lock's release.
ScExtend(c) ==
    /\ prog = "scr"
    /\ walker[c].pc = "extending"
    /\ result_rows' = result_rows \o walker[c].local_rows
    /\ appended' = appended \o walker[c].local_rows
    /\ result_lock' = 0
    /\ walker' = [walker EXCEPT ![c].pc = "save"]
    /\ UNCHANGED <<cwrVars, rrVars>>
    /\ UNCHANGED <<inputVars, listing_log, prior_failed, ids, served, ev, args, main_pc, failed_urls,
                   failed_urls_lock, args_output, args_failed>>

\* save_partial_results under the lock, lines 66-78, then local_rows.clear()
\* (line 203) in the loop, or the return of process_conference (line 212).
ScSave(c) ==
    /\ prog = "scr"
    /\ walker[c].pc = "saving"
    /\ LET saved == save_partial_results(args_output, result_rows) IN
       /\ args_output' = saved.file
       /\ result_rows' = saved.rows
    /\ result_lock' = 0
    /\ walker' = [walker EXCEPT ![c] =
                    IF walker[c].after = "done"
                    THEN [walker[c] EXCEPT !.pc = "done"]
                    ELSE [NextItem(walker[c]) EXCEPT !.local_rows = <<>>]]
    /\ UNCHANGED <<cwrVars, rrVars>>
    /\ UNCHANGED <<inputVars, histVars, ids, served, ev, args, main_pc, failed_urls,
                   failed_urls_lock, args_failed>>

\* What may be at args.failed when main gets to line 238: nothing, or the log
\* of an earlier run, as text.
ScPriorLogs ==
    {NoFile, [exists |-> TRUE, lines |-> <<[conference_id |-> 1, url |-> ListingUrl(1, 1)]>>]}

\* pd.DataFrame(failed_urls), line 239: conference_id holds the ids as main
\* made them, str objects (ids = filtered['id'].astype(str), line 223).
DataFrame(records) ==
    [k \in 1..Len(records) |->
        [conference_id |-> [dtype |-> "str", v |-> records[k].conference_id],
         url |-> records[k].url]]

\* pd.read_csv(args.failed), line 241: the ids are numerals, and read_csv
\* makes a column of numerals int64.
read_csv(file) ==
    [k \in 1..Len(file.lines) |->
        [conference_id |-> [dtype |-> "int64", v |-> file.lines[k].conference_id],
         url |-> file.lines[k].url]]

\* drop_duplicates: of rows that are equal the first is kept.
RECURSIVE drop_duplicates(_)
drop_duplicates(rows) ==
    IF rows = <<>> THEN <<>>
    ELSE LET kept == drop_duplicates(SubSeq(rows, 1, Len(rows) - 1))
             last == rows[Len(rows)] IN
         IF \E k \in 1..Len(kept) : kept[k] = last THEN kept ELSE Append(kept, last)

\* to_csv, line 243: every cell is written as its text.
to_csv(frame) ==
    [exists |-> TRUE,
     lines |-> [k \in 1..Len(frame) |->
                  [conference_id |-> frame[k].conference_id.v, url |-> frame[k].url]]]

\* Lines 238-244: the file at args.failed after main has saved the failures.
SaveFailed(file, failures) ==
    IF failures = <<>> THEN file
    ELSE IF file.exists
         THEN to_csv(drop_duplicates(read_csv(file) \o DataFrame(failures)))
         ELSE to_csv(DataFrame(failures))

\* main, lines 237-246: every walk has returned (the pool's with block waits
\* for its threads); the failures, when there are any, are merged into the
\* log at args.failed.
ScMainFinish ==
    /\ prog = "scr"
    /\ main_pc = "walking"
    /\ \A c \in IdSet : walker[c].pc \in {"done", "raised"}
    /\ \E prior \in ScPriorLogs :
        /\ prior_failed' = prior
        /\ args_failed' = SaveFailed(prior, failed_urls)
    /\ main_pc' = "done"
    /\ UNCHANGED <<cwrVars, rrVars>>
    /\ UNCHANGED <<inputVars, listing_log, appended, ids, served, ev, args, walker, result_rows, failed_urls,
                   result_lock, failed_urls_lock, args_output>>

NextScr ==
    \/ ScMainStart
    \/ \E c \in Coll : ScStart(c)
    \/ \E c \in Coll : ScAttempt(c)
    \/ \E c \in Coll : ScFailedLock(c)
    \/ \E c \in Coll : ScFailedAppend(c)
    \/ \E c \in Coll : ScResultLock(c)
    \/ \E c \in Coll : ScExtend(c)
    \/ \E c \in Coll : ScSave(c)
    \/ ScMainFinish

\* ------------------------------------------------- redirect_resolver.py

Urls == {"A", "B", "C"}

\* A null cell of the url column (NaN).
NULL == "NaN"

\* The value of an empty Final URL cell (None when written, NaN when read).
NoFinal == "None"

\* page.url after the navigation: where url redirects to.
FinalOf(url) == "final_" \o url

\* A snapshot file: one row per row of the slice.
Table(rows) == [kind |-> "table", rows |-> rows]

\* The URLs in the order an earlier snapshot has them.
UrlOrder == <<"A", "B", "C">>

InKeys(K, url) == url \in K

\* The rows of an earlier snapshot with the keys K: the Final URL of a key of
\* Resolved is what the key redirects to, that of the others is empty.
PriorRows(K, Resolved) ==
    LET keys == SelectSeq(UrlOrder, LAMBDA u : InKeys(K, u)) IN
    [k \in 1..Len(keys) |->
        [url |-> keys[k],
         final |-> IF keys[k] \in Resolved THEN FinalOf(keys[k]) ELSE NoFinal]]

\* The files main can find at output_csv: none, one pandas cannot read, one
\* without the url column, or a snapshot an earlier run wrote.
PriorFiles ==
    {[kind |-> "absent", rows |-> <<>>], [kind |-> "unreadable", rows |-> <<>>],
     [kind |-> "no_column", rows |-> <<>>]} \cup
    {Table(PriorRows(K, R)) : K \in SUBSET Urls, R \in SUBSET Urls}

RrInitWith(S) ==
    /\ rr_pc = "start"
    /\ sliced_df \in S
    /\ existing \in PriorFiles
    /\ output_file = existing
    /\ already_done = {}
    /\ future_to_url = <<>>
    /\ results = <<>>
    /\ completed_count = 0

RrInit == RrInitWith(UNION {[1..n -> Urls \cup {NULL}] : n \in 1..MaxRows})

\* The resolver as it stands when the run is of another program.
RrIdle ==
    /\ rr_pc = "start"
    /\ sliced_df = <<NULL>>
    /\ existing = [kind |-> "absent", rows |-> <<>>]
    /\ output_file = existing
    /\ already_done = {}
    /\ future_to_url = <<>>
    /\ results = <<>>
    /\ completed_count = 0

\* urls = sliced_df[url_column].dropna().tolist() (line 44).
RECURSIVE DropNa(_)
DropNa(col) ==
    IF col = <<>> THEN <<>>
    ELSE (IF Head(col) = NULL THEN <<>> ELSE <<Head(col)>>) \o DropNa(Tail(col))

\* Lines 50-58: set(saved_df[url_column]) of a file that is there and reads
\* with the column; the empty set otherwise.
LoadDone(file) ==
    IF file.kind = "table" THEN {file.rows[k].url : k \in 1..Len(file.rows)} ELSE {}

\* The load without its try/except: a file that does not read, or reads
\* without the column, ends main.
TryLoadUncaught(file) ==
    [raised |-> file.kind \in {"unreadable", "no_column"}, done |-> LoadDone(file)]

\* Lines 49-58: os.path.exists, and the try whose bare except takes every
\* exception of read_csv and of saved_df[url_column] for an empty done-set.
TryLoad(file) == [raised |-> FALSE, done |-> LoadDone(file)]

\* Submitting every url, done or not.
ToSubmitAll(urls, done) == urls

\* Lines 61-64: the urls submitted, [url for url in urls if url not in already_done].
RECURSIVE ToSubmit(_, _)
ToSubmit(urls, done) ==
    IF urls = <<>> THEN <<>>
    ELSE (IF Head(urls) \notin done THEN <<Head(urls)>> ELSE <<>>) \o ToSubmit(Tail(urls), done)

\* results.get(x) if x in results else None (lines 81-83 and 88-90); results is
\* kept as the sequence of its (key, value) pairs, a later pair overriding.
RECURSIVE Lookup(_, _)
Lookup(res, x) ==
    IF res = <<>> THEN NoFinal
    ELSE IF res[Len(res)].key = x THEN res[Len(res)].value
    ELSE Lookup(SubSeq(res, 1, Len(res) - 1), x)

\* sliced_df with its Final URL column mapped from results, as to_csv writes it.
Snapshot(col, res) ==
    Table([k \in 1..Len(col) |-> [url |-> col[k], final |-> Lookup(res, col[k])]])

\* Lines 49-58: the existing output is loaded.
RrLoad ==
    /\ prog = "rr"
    /\ rr_pc = "start"
    /\ already_done' = TryLoad(output_file).done
    /\ rr_pc' = IF TryLoad(output_file).raised THEN "failed" ELSE "submit"
    /\ UNCHANGED <<cwrVars, scrVars>>
    /\ UNCHANGED <<inputVars, histVars, ids, served, ev, sliced_df, existing, output_file, future_to_url,
                   results, completed_count>>

\* Lines 60-64: one future per url to resolve.
RrSubmit ==
    /\ prog = "rr"
    /\ rr_pc = "submit"
    /\ LET urls == ToSubmit(DropNa(sliced_df), already_done) IN
       future_to_url' = [k \in 1..Len(urls) |-> [url |-> urls[k], st |-> "pending"]]
    /\ rr_pc' = "as_completed"
    /\ UNCHANGED <<cwrVars, scrVars>>
    /\ UNCHANGED <<inputVars, histVars, ids, served, ev, sliced_df, existing, output_file, already_done,
                   results, completed_count>>

\* resolve_redirect_worker ends: it returns (url, page.url) or raises (the
\* browser does not launch).
RrWorker(k) ==
    /\ prog = "rr"
    /\ rr_pc = "as_completed"
    /\ k \in 1..Len(future_to_url)
    /\ future_to_url[k].st = "pending"
    /\ \E st \in {"returned", "raised"} :
          future_to_url' = [future_to_url EXCEPT ![k].st = st]
    /\ UNCHANGED <<cwrVars, scrVars>>
    /\ UNCHANGED <<inputVars, histVars, ids, served, ev, rr_pc, sliced_df, existing, output_file,
                   already_done, results, completed_count>>

\* One turn of the as_completed loop (lines 66-85): the result is stored, and
\* every save_every completions and at the last one the snapshot is written.
RrCompleted(k) ==
    /\ prog = "rr"
    /\ rr_pc = "as_completed"
    /\ k \in 1..Len(future_to_url)
    /\ future_to_url[k].st \in {"returned", "raised"}
    /\ LET url == future_to_url[k].url
           value == IF future_to_url[k].st = "returned" THEN FinalOf(url) ELSE NoFinal
           res == Append(results, [key |-> url, value |-> value])
           count == completed_count + 1 IN
       /\ results' = res
       /\ completed_count' = count
       /\ output_file' = IF count % RrSaveEvery = 0 \/ count = Len(future_to_url)
                         THEN Snapshot(sliced_df, res)
                         ELSE output_file
    /\ future_to_url' = [future_to_url EXCEPT ![k].st = "yielded"]
    /\ UNCHANGED <<cwrVars, scrVars>>
    /\ UNCHANGED <<inputVars, histVars, ids, served, ev, rr_pc, sliced_df, existing, already_done>>

\* Lines 87-92: the loop is over and the final snapshot is written.
RrFinalSave ==
    /\ prog = "rr"
    /\ rr_pc = "as_completed"
    /\ \A k \in 1..Len(future_to_url) : future_to_url[k].st = "yielded"
    /\ output_file' = Snapshot(sliced_df, results)
    /\ rr_pc' = "done"
    /\ UNCHANGED <<cwrVars, scrVars>>
    /\ UNCHANGED <<inputVars, histVars, ids, served, ev, sliced_df, existing, already_done,
                   future_to_url, results, completed_count>>

\* The process is stopped in the as_completed loop after a checkpoint was
\* written, and main is run again with the same arguments (lines 37-47): the
\* output of the first run is what the second finds, results and
\* completed_count start anew.
RrInterrupted ==
    /\ prog = "rr"
    /\ rr_pc = "as_completed"
    /\ existing.kind = "absent"
    /\ output_file.kind = "table"
    /\ existing' = output_file
    /\ rr_pc' = "start"
    /\ already_done' = {}
    /\ future_to_url' = <<>>
    /\ results' = <<>>
    /\ completed_count' = 0
    /\ UNCHANGED <<cwrVars, scrVars>>
    /\ UNCHANGED <<inputVars, histVars, ids, served, ev, sliced_df, output_file>>

NextRR ==
    \/ RrLoad
    \/ RrSubmit
    \/ \E k \in 1..MaxRows : RrWorker(k)
    \/ \E k \in 1..MaxRows : RrCompleted(k)
    \/ RrFinalSave

\* ------------------------------------------------- the entry points

\* The ids of the input that main keeps: filtered['id'] (cwr.py 255-257,
\* scr.py 221-223).
AllIds == [k \in 1..NumColl |-> k]

\* A bound of a Python slice of a list of the given length.
SliceBound(x, len) ==
    IF x < 0 THEN (IF x + len < 0 THEN 0 ELSE x + len)
    ELSE (IF x > len THEN len ELSE x)

\* seq[a:b] of Python.
PySlice(seq, a, b) == SubSeq(seq, SliceBound(a, Len(seq)) + 1, SliceBound(b, Len(seq)))

\* The values of --start and --end the entry points are given; end_given is
\* FALSE where --end is left out (scr.py: default None).
RangeArgs ==
    {r \in [start : -1..NumColl, end : -1..NumColl, end_given : BOOLEAN] :
        ~r.end_given => r.end = 0}

\* main of cwr.py, lines 289-297, and the slice of run(), line 257: a range
\* with start < 0 or end <= start is refused.
CwMain ==
    /\ prog = "cwr"
    /\ run_pc = "main"
    /\ IF range.start < 0 \/ range.end <= range.start
       THEN run_pc' = "rejected" /\ UNCHANGED ids
       ELSE run_pc' = "start" /\ ids' = PySlice(AllIds, range.start, range.end)
    /\ UNCHANGED <<scrVars, rrVars>>
    /\ UNCHANGED <<inputVars, histVars, args_workers, conf, self_result_rows,
                   self_failed_urls, self_processed_count, output_csv, failed_urls_log,
                   served, ev>>

\* main of scr.py, lines 214-225: the ids are sliced as --start and --end say,
\* with no test of either; an end of None or 0 is taken for no end.
ScMain ==
    /\ prog = "scr"
    /\ main_pc = "main"
    /\ ids' = IF range.end_given /\ range.end # 0
              THEN PySlice(AllIds, range.start, range.end)
              ELSE PySlice(AllIds, range.start, Len(AllIds))
    /\ main_pc' = "start"
    /\ UNCHANGED <<cwrVars, rrVars>>
    /\ UNCHANGED <<inputVars, histVars, served, ev, args, walker, result_rows,
                   failed_urls, result_lock, failed_urls_lock, args_output, args_failed>>

\* ------------------------------------------------- specifications

Init ==
    /\ prog = "cwr" /\ repeats = FALSE
    /\ SharedInit /\ CwInit /\ ScIdle /\ RrIdle
    /\ output_csv \in PriorOutputs /\ args_output = NoFile

Spec == Init /\ [][NextCwr]_vars

\* The event loop runs every task that can run, and every fetch comes back or
\* times out after REQUEST_TIMEOUT.
FairSpec == Spec /\ WF_vars(NextCwr)

InitScr ==
    /\ prog = "scr" /\ repeats = FALSE
    /\ SharedInit /\ CwInit /\ ScInit /\ RrIdle
    /\ output_csv = NoFile /\ args_output \in PriorOutputs

SpecScr == InitScr /\ [][NextScr]_vars

\* A run of either crawler.
SpecCrawlers == (Init \/ InitScr) /\ [][NextCwr \/ NextScr]_vars

\* A run of either crawler on a site that may pin an article to every page.
InitAnySite ==
    /\ prog \in {"cwr", "scr"}
    /\ repeats \in BOOLEAN
    /\ SharedInit /\ CwInit /\ RrIdle
    /\ IF prog = "scr" THEN ScInit ELSE ScIdle
    /\ output_csv \in (IF prog = "cwr" THEN PriorOutputs ELSE {NoFile})
    /\ args_output \in (IF prog = "scr" THEN PriorOutputs ELSE {NoFile})

SpecAnySite == InitAnySite /\ [][NextCwr \/ NextScr]_vars

\* Either crawler from its entry point, with the range arguments it is given.
InitEntry ==
    /\ prog \in {"cwr", "scr"}
    /\ repeats = FALSE
    /\ range \in RangeArgs
    /\ prog = "cwr" => range.end_given
    /\ ids = <<>> /\ served = 0 /\ ev = NoEvent
    /\ listing_log = [c \in Coll |-> <<>>]
    /\ appended = <<>>
    /\ prior_failed = NoFile
    /\ CwInitAt(IF prog = "cwr" THEN "main" ELSE "start")
    /\ IF prog = "scr" THEN ScInitAt(ArgSets, "main") ELSE ScIdle
    /\ RrIdle
    /\ output_csv = NoFile /\ args_output = NoFile

SpecEntry == InitEntry /\ [][CwMain \/ ScMain \/ NextCwr \/ NextScr]_vars

\* The crawlers as they stand when the run is of the resolver.
CrawlersIdle ==
    /\ ids = <<1>> /\ served = 0 /\ ev = NoEvent
    /\ repeats = FALSE
    /\ range = [start |-> 0, end |-> 1, end_given |-> TRUE]
    /\ listing_log = [c \in Coll |-> <<>>]
    /\ appended = <<>>
    /\ prior_failed = NoFile
    /\ CwInit /\ ScIdle
    /\ output_csv = NoFile /\ args_output = NoFile

InitRR == prog = "rr" /\ CrawlersIdle /\ RrInit

SpecRR == InitRR /\ [][NextRR]_vars

\* A first run over no output that may be stopped once, and the run after it.
InitRRFirst == InitRR /\ existing.kind = "absent"

SpecRRResume == InitRRFirst /\ [][NextRR \/ RrInterrupted]_vars

\* ------------------------------------------------- cwr.py: claims

FailuresFor(url) == {k \in 1..Len(self_failed_urls) : self_failed_urls[k].url = url}

\* An ItemRecord was made for the item: it is in a gather's results, in the
\* buffer or in the output file.
RowMade(link) ==
    \/ \E c \in Coll : \E i \in 1..Len(conf[c].res) :
          conf[c].res[i].st = "row" /\ conf[c].res[i].link = link
    \/ \E k \in 1..Len(self_result_rows) : self_result_rows[k].link = link
    \/ \E k \in 1..Len(output_csv.lines) :
          output_csv.lines[k] # HEADER /\ output_csv.lines[k].link = link

\* An item of the page was dispatched: its coroutine was made.
Dispatched(c, page) ==
    \/ conf[c].page = page /\ conf[c].pc \in {"pacing", "items"}
    \/ \E i \in 1..MaxItems :
          RowMade(ArticleUrl(c, page, i)) \/ FailuresFor(ArticleUrl(c, page, i)) # {}

\* C1 (as claimed): never more than args.workers walks are in progress.
C1_AtMostWorkersInProgress ==
    Cardinality({c \in Coll : InProgress(c)}) <= args_workers

\* C4 (as claimed): a listing fetch that failed, by a non-200 status or by an
\* exception, left exactly one failure record with the listing URL, dispatched
\* no item of the page and ended the walk.
C4_ListingFailureRecorded ==
    (ev.kind = "listing" /\ ev.status # "200") =>
        /\ Cardinality(FailuresFor(ev.url)) = 1
        /\ ~Dispatched(ev.url.cid, ev.url.page)
        /\ conf[ev.url.cid].pc = "done"

\* C5 (as claimed): a fetch that ended on a transient condition (timeout, 429,
\* 5xx) was attempted MAX_RETRIES times before it was given up.
C5_TransientRetried ==
    (ev.kind # "none" /\ ev.status \in Transient) => ev.attempts = MAX_RETRIES

\* C8: whatever listing and item fetches fail, run() comes to its end with
\* every walk Done, the buffer saved and the failures written to the log.
C8_RunCompletes ==
    <>(/\ run_pc = "done"
       /\ \A c \in IdSet : conf[c].pc = "done"
       /\ self_result_rows = <<>>
       /\ self_failed_urls # <<>> => failed_urls_log = [exists |-> TRUE, lines |-> self_failed_urls])

\* C8 witness: a finished run in which a listing fetch and an item fetch failed.
C8_Witness ==
    /\ run_pc = "done"
    /\ \E k \in 1..Len(self_failed_urls) : self_failed_urls[k].url.kind = "listing"
    /\ \E k \in 1..Len(self_failed_urls) :
          self_failed_urls[k].url.kind = "item" /\ self_failed_urls[k].error # "AttributeError"

\* C10 (as claimed): an item fetched with status 200 has an ItemRecord and
\* no failure record, whatever its content.
C10_ExtractionNeverRecorded ==
    (ev.kind = "item" /\ ev.status = "200") =>
        /\ FailuresFor(ev.url) = {}
        /\ RowMade(ev.url)

\* ------------------------------------------------- scr.py: claims

ScFailuresFor(url) == {k \in 1..Len(failed_urls) : failed_urls[k].url = url}

\* A row was made for the item: it is in a walker's local_rows, in result_rows
\* or in the output file.
ScRowMade(link) ==
    \/ \E c \in Coll : \E k \in 1..Len(walker[c].local_rows) :
          walker[c].local_rows[k].link = link
    \/ \E k \in 1..Len(result_rows) : result_rows[k].link = link
    \/ \E k \in 1..Len(args_output.lines) :
          args_output.lines[k] # HEADER /\ args_output.lines[k].link = link

\* C6: retry_get makes at most args.retries attempts; it returns True at the
\* first attempt that succeeds and records nothing; when every attempt failed
\* it made exactly args.retries attempts, recorded one failure for the URL and
\* its collection and returned False.
C6_RetryGetAttempts ==
    /\ \A c \in Coll : walker[c].attempt - 1 <= args.retries
    /\ (prog = "scr" /\ ev.status = "True") =>
          /\ ev.attempts \in 1..args.retries
          /\ ScFailuresFor(ev.url) = {}
    /\ (prog = "scr" /\ ev.status = "False") =>
          /\ ev.attempts = args.retries
          /\ Cardinality(ScFailuresFor(ev.url)) = 1
          /\ \A k \in ScFailuresFor(ev.url) : failed_urls[k].conference_id = ev.url.cid

\* C6 witness: retry_get returned False after MaxRetriesArg failed attempts.
C6_Witness ==
    /\ prog = "scr"
    /\ ev.status = "False"
    /\ args.retries = MaxRetriesArg
    /\ ev.attempts = MaxRetriesArg

\* C7 (as claimed): when main is over, a walk that an exception left has an
\* entry in the failure log, and every other walk of the subset is Done.
C7_EscapedExceptionIsolated ==
    (prog = "scr" /\ main_pc \in {"done", "aborted"}) =>
        \A c \in IdSet :
            /\ walker[c].pc = "raised" =>
                  \E k \in 1..Len(args_failed.lines) : args_failed.lines[k].conference_id = c
            /\ walker[c].pc # "raised" => walker[c].pc = "done"

\* C9: an item whose fetch failed has one failure record, with its URL and
\* collection id, and no ItemRecord, and its walk goes on: in cwr.py with the
\* other items of the gather and then the next page, in scr.py with the next
\* item or the next page.
C9_ItemFailureSkipsItem ==
    /\ (prog = "cwr" /\ ev.kind = "item" /\ ev.status # "200") =>
          /\ Cardinality(FailuresFor(ev.url)) = 1
          /\ \A k \in FailuresFor(ev.url) : self_failed_urls[k].conference_id = ev.url.cid
          /\ ~RowMade(ev.url)
          /\ \/ conf[ev.url.cid].pc = "items" /\ conf[ev.url.cid].page = ev.url.page
             \/ conf[ev.url.cid].pc = "listing" /\ conf[ev.url.cid].page = ev.url.page + 1
    /\ (prog = "scr" /\ ev.kind = "item" /\ ev.status = "False") =>
          /\ Cardinality(ScFailuresFor(ev.url)) = 1
          /\ \A k \in ScFailuresFor(ev.url) : failed_urls[k].conference_id = ev.url.cid
          /\ ~ScRowMade(ev.url)
          /\ walker[ev.url.cid].pc \in {"get", "failed"}
          /\ \/ Target(ev.url.cid) = ArticleUrl(ev.url.cid, ev.url.page, ev.url.idx + 1)
             \/ Target(ev.url.cid) = ListingUrl(ev.url.cid, ev.url.page + 1)

\* C9 witness: in scr.py the first item of a page failed and the walker is on
\* the second.
C9_Witness ==
    /\ prog = "scr"
    /\ ev.kind = "item" /\ ev.status = "False" /\ ev.url.idx = 1
    /\ walker[ev.url.cid].pc = "get"
    /\ walker[ev.url.cid].i = 2

\* C9 witness in cwr.py: the page after a failed item is being fetched.
C9_WitnessCwr ==
    /\ prog = "cwr"
    /\ ev.kind = "item" /\ ev.status # "200"
    /\ conf[ev.url.cid].pc = "listing" /\ conf[ev.url.cid].page = ev.url.page + 1

\* ------------------------------------------------- redirect_resolver.py: claims

\* The keys of the url column of the output main found.
ExistingKeys == {existing.rows[k].url : k \in 1..Len(existing.rows)}

\* The Final URL the output main found has for url, when it has a resolved one.
ExistingResolved(url) ==
    {existing.rows[k].final : k \in {j \in 1..Len(existing.rows) :
        existing.rows[j].url = url /\ existing.rows[j].final # NoFinal}}

\* C2 (as claimed): when the resumed run is over, every row of the output
\* whose url had a resolved Final URL in the existing output still has it.
C2_ResolvedRowsKept ==
    (prog = "rr" /\ rr_pc = "done") =>
        \A k \in 1..Len(output_file.rows) :
            \A f \in ExistingResolved(output_file.rows[k].url) :
                output_file.rows[k].final = f

\* C3: no URL of the url column of the existing output is ever handed to a
\* worker, and the URLs handed over are the other non-null URLs of the slice.
C3_DoneNotSubmitted ==
    (prog = "rr" /\ rr_pc \in {"as_completed", "done"}) =>
        /\ \A k \in 1..Len(future_to_url) : future_to_url[k].url \notin ExistingKeys
        /\ {future_to_url[k].url : k \in 1..Len(future_to_url)}
             = {sliced_df[k] : k \in 1..Len(sliced_df)} \ (ExistingKeys \cup {NULL})

\* C3 witness: with {A,B} in the existing output and the slice A,B,C the run
\* ended having resolved C alone.
C3_Witness ==
    /\ prog = "rr" /\ rr_pc = "done"
    /\ ExistingKeys = {"A", "B"}
    /\ sliced_df = <<"A", "B", "C">>
    /\ future_to_url = <<[url |-> "C", st |-> "yielded"]>>
    /\ results = <<[key |-> "C", value |-> FinalOf("C")]>>

\* ------------------------------------------------- both crawlers: claims

\* The walk of the collection has left its page loop: process_conference has
\* returned (cwr.py), or is at or past its closing flush (scr.py).
LoopLeft(c) ==
    IF prog = "cwr" THEN conf[c].pc = "done"
    ELSE \/ walker[c].pc = "done"
         \/ walker[c].pc \in {"extend", "extending", "save", "saving"}
               /\ walker[c].after = "done"

\* The page the walk of the collection is on.
WalkPage(c) == IF prog = "cwr" THEN conf[c].page ELSE walker[c].page

\* The failure records of the run that carry the URL.
FailuresOf(url) == IF prog = "cwr" THEN FailuresFor(url) ELSE ScFailuresFor(url)

\* The listing fetches of the collection were k >= 0 pages with articles and
\* then a page without.
EndedOnEmptyPage(c) ==
    LET L == listing_log[c] IN
    /\ L # <<>>
    /\ L[Len(L)].ok /\ L[Len(L)].n = 0
    /\ \A j \in 1..(Len(L) - 1) : L[j].ok /\ L[j].n > 0

\* C11: in both crawlers, a walk whose listing source gave k pages with
\* articles and then a page without has fetched the pages 1..k+1, each once
\* and in order, has left its page loop at page k+1, and no failure record
\* carries a listing URL of the collection.
C11_EmptyPageEndsWalk ==
    \A c \in Coll :
        EndedOnEmptyPage(c) =>
            /\ \A j \in 1..Len(listing_log[c]) : listing_log[c][j].page = j
            /\ LoopLeft(c)
            /\ WalkPage(c) = Len(listing_log[c])
            /\ \A p \in 1..Len(listing_log[c]) : FailuresOf(ListingUrl(c, p)) = {}

\* C11 witness: scr.py, two pages with articles and an empty third page; the
\* walk is over.
C11_Witness ==
    /\ prog = "scr"
    /\ \E c \in Coll :
          /\ EndedOnEmptyPage(c)
          /\ Len(listing_log[c]) = 3
          /\ walker[c].pc = "done"

\* The same in cwr.py.
C11_WitnessCwr ==
    /\ prog = "cwr"
    /\ \E c \in Coll :
          /\ EndedOnEmptyPage(c)
          /\ Len(listing_log[c]) = 3
          /\ conf[c].pc = "done"

\* The output file of the run.
OutputFile == IF prog = "cwr" THEN output_csv ELSE args_output

\* C12 (as claimed): no two ItemRecords of the output share collection id and
\* url, whatever the listing pages hold.
C12_NoDuplicateItemRecord ==
    \A j, k \in 1..Len(OutputFile.lines) :
        (j < k /\ OutputFile.lines[j] # HEADER /\ OutputFile.lines[k] # HEADER) =>
            ~(/\ OutputFile.lines[j].cid = OutputFile.lines[k].cid
              /\ OutputFile.lines[j].link = OutputFile.lines[k].link)

\* The result buffer and the failure list of the run.
ResultBuffer == IF prog = "cwr" THEN self_result_rows ELSE result_rows
FailureList == IF prog = "cwr" THEN self_failed_urls ELSE failed_urls

\* process_conference has returned for the collection.
WalkDone(c) == IF prog = "cwr" THEN conf[c].pc = "done" ELSE walker[c].pc = "done"

RECURSIVE SumN(_)
SumN(L) == IF L = <<>> THEN 0 ELSE Head(L).n + SumN(Tail(L))

\* The ItemRefs the listing pages of the collection held.
Discovered(c) == SumN(listing_log[c])

\* The ItemRecords of the collection, in the buffer and in the output file.
RecordsOf(c) ==
    Cardinality({k \in 1..Len(ResultBuffer) : ResultBuffer[k].cid = c})
    + Cardinality({k \in 1..Len(OutputFile.lines) :
                     OutputFile.lines[k] # HEADER /\ OutputFile.lines[k].cid = c})

\* The failure records of the collection that carry an item URL.
ItemFailuresOf(c) ==
    Cardinality({k \in 1..Len(FailureList) :
                   FailureList[k].conference_id = c /\ FailureList[k].url.kind = "item"})

AllListingsOk(c) == \A j \in 1..Len(listing_log[c]) : listing_log[c][j].ok

\* C13 (as claimed): a collection whose every listing fetch succeeded has, when
\* its walk has returned, as many ItemRecords as its pages held ItemRefs.
C13_RecordsEqualDiscovered ==
    \A c \in Coll :
        (WalkDone(c) /\ AllListingsOk(c)) => RecordsOf(c) = Discovered(c)

\* C13 (amended): a collection whose every listing fetch succeeded has, when
\* its walk has returned, one ItemRecord or one item failure record for every
\* ItemRef its pages held: the records and the failed items together are as
\* many as the ItemRefs.
C13_RecordsAndFailuresEqualDiscovered ==
    \A c \in Coll :
        (WalkDone(c) /\ AllListingsOk(c)) =>
            RecordsOf(c) + ItemFailuresOf(c) = Discovered(c)

\* C13 witness: a returned walk with every listing fetched, one item recorded
\* and one item failed.
C13_Witness ==
    \E c \in Coll :
        /\ WalkDone(c) /\ AllListingsOk(c)
        /\ listing_log[c] # <<>>
        /\ RecordsOf(c) >= 1
        /\ ItemFailuresOf(c) >= 1

\* ------------------------------------------------- cwr.py: flushes

\* The data rows of the output file.
Persisted == Len(output_csv.lines) - 1

\* C14 (as claimed): save_results runs as soon as the buffer holds SAVE_EVERY
\* rows, so while the walks run the file holds a multiple of SAVE_EVERY rows
\* and the buffer fewer than SAVE_EVERY.
C14_FlushAtEveryThreshold ==
    run_pc = "gather" =>
        /\ Len(self_result_rows) < SAVE_EVERY
        /\ Persisted % SAVE_EVERY = 0

\* C14 (amended): save_results runs when a page's rows have been appended and
\* the buffer then holds SAVE_EVERY rows or more; it writes the whole buffer,
\* which may be more than SAVE_EVERY rows, so between pages the buffer holds
\* fewer than SAVE_EVERY rows; the save at the end of run writes what remains.
C14_FlushAfterPage ==
    /\ [](run_pc = "gather" => Len(self_result_rows) < SAVE_EVERY)
    /\ [][/\ (run_pc = "gather" /\ run_pc' = "gather" /\ output_csv' # output_csv) =>
               /\ Len(output_csv'.lines) - Len(output_csv.lines) >= SAVE_EVERY
               /\ Len(appended') = Persisted'
               /\ self_result_rows' = <<>>
          /\ (run_pc = "gather" /\ run_pc' = "failed_log") =>
               /\ output_csv'.lines = output_csv.lines \o self_result_rows
               /\ self_result_rows' = <<>>]_vars

\* C14 witness: one flush has written a row more than SAVE_EVERY.
C14_Witness ==
    /\ run_pc = "gather"
    /\ Persisted = SAVE_EVERY + 1
    /\ self_result_rows = <<>>

\* ------------------------------------------------- both crawlers: the output

\* The run is over: run() has returned (cwr.py), main has (scr.py).
RunComplete == IF prog = "cwr" THEN run_pc = "done" ELSE main_pc = "done"

\* The run has begun: it is past the truncation (cwr.py) or removal (scr.py)
\* of the old output.
RunBegun == IF prog = "cwr" THEN run_pc # "start" ELSE main_pc # "start"

\* The data rows of the output file.
DataRows == IF OutputFile.exists THEN Tail(OutputFile.lines) ELSE <<>>

\* How often the row occurs in the sequence.
Occurrences(seq, row) == Cardinality({k \in 1..Len(seq) : seq[k] = row})

\* C15: when a run is over, the output file holds every row that was appended
\* to the result buffer exactly as often as it was appended, and nothing else,
\* and the result buffer is empty.
C15_AppendedWrittenOnce ==
    RunComplete =>
        /\ ResultBuffer = <<>>
        /\ Len(DataRows) = Len(appended)
        /\ \A k \in 1..Len(appended) :
              Occurrences(DataRows, appended[k]) = Occurrences(appended, appended[k])

\* C15 witness: a parallel run of scr.py is over with rows of two collections
\* appended, over an output left by an earlier run.
C15_Witness ==
    /\ prog = "scr" /\ main_pc = "done" /\ args.parallel
    /\ \E j, k \in 1..Len(appended) : appended[j].cid # appended[k].cid

\* The same in cwr.py, with a flush during the walks and rows left for the
\* closing save.
C15_WitnessCwr ==
    /\ prog = "cwr" /\ run_pc = "done"
    /\ Len(appended) > SAVE_EVERY

\* C16: during a run, an output file that exists begins with the header row
\* and holds no other header row.
C16_OneHeaderFirst ==
    (RunBegun /\ OutputFile.exists) =>
        /\ OutputFile.lines # <<>>
        /\ OutputFile.lines[1] = HEADER
        /\ \A k \in 2..Len(OutputFile.lines) : OutputFile.lines[k] # HEADER

\* C16 witness: scr.py has flushed at save_every rows and once more, and the
\* output holds the header and the rows of both flushes.
C16_Witness ==
    /\ prog = "scr"
    /\ main_pc = "done"
    /\ Len(args_output.lines) = 1 + ScrSaveEvery + 1

\* The same in cwr.py: the header written by run() and the rows of a flush.
C16_WitnessCwr ==
    /\ prog = "cwr"
    /\ run_pc = "gather"
    /\ Len(output_csv.lines) > SAVE_EVERY

\* ------------------------------------------------- the failure logs

\* The rows of the sequence, of equal rows the first.
RECURSIVE Distinct(_)
Distinct(rows) ==
    IF rows = <<>> THEN <<>>
    ELSE LET kept == Distinct(SubSeq(rows, 1, Len(rows) - 1))
             last == rows[Len(rows)] IN
         IF \E k \in 1..Len(kept) : kept[k] = last THEN kept ELSE Append(kept, last)

\* C17 (as claimed): when main of scr.py has saved a non-empty failure list,
\* the log holds the rows of the log it found and the failures of the run,
\* each row once, and saving the same failures again leaves the log as it is.
C17_FailureLogMergedOnce ==
    (prog = "scr" /\ main_pc = "done" /\ failed_urls # <<>>) =>
        /\ args_failed.lines = Distinct(prior_failed.lines \o failed_urls)
        /\ SaveFailed(args_failed, failed_urls) = args_failed

\* C18 (as claimed): when run() of cwr.py has returned and found a failure
\* log, the log holds the failures it held before and the failures of the run.
C18_PreviousFailuresKept ==
    (prog = "cwr" /\ run_pc = "done" /\ prior_failed.exists) =>
        /\ \A k \in 1..Len(prior_failed.lines) :
              \E j \in 1..Len(failed_urls_log.lines) :
                  failed_urls_log.lines[j] = prior_failed.lines[k]
        /\ \A k \in 1..Len(self_failed_urls) :
              \E j \in 1..Len(failed_urls_log.lines) :
                  failed_urls_log.lines[j] = self_failed_urls[k]

\* ------------------------------------------------- the entry points: claims

\* The range the spec has the entry points refuse.
RangeInvalid == range.start < 0 \/ (range.end_given /\ range.end <= range.start)

\* C19 (as claimed): with end <= start or start < 0, either entry point stops
\* before any work: no walk is scheduled and no fetch is made.
C19_InvalidRangeRejected ==
    RangeInvalid =>
        /\ \A c \in Coll : conf[c].pc = "idle" /\ walker[c].pc = "queued"
        /\ ~(prog = "scr" /\ main_pc = "walking" /\ ids # <<>>)
        /\ ev = NoEvent
        /\ \A c \in Coll : listing_log[c] = <<>>

\* ------------------------------------------------- redirect_resolver.py: the load

\* C20: when the prior output is absent, does not read, or reads without the
\* url column, main goes on: the done-set is empty and the URLs handed to the
\* workers are the non-null URLs of the slice, every one, in order.
C20_UnusablePriorOutputIgnored ==
    (prog = "rr" /\ existing.kind # "table" /\ rr_pc # "start") =>
        /\ rr_pc # "failed"
        /\ already_done = {}
        /\ rr_pc \in {"as_completed", "done"} =>
              [k \in 1..Len(future_to_url) |-> future_to_url[k].url] = DropNa(sliced_df)

\* C20 witness: over an output that reads without the url column, a slice of
\* two URLs and a null cell was resolved to the end.
C20_Witness ==
    /\ prog = "rr" /\ rr_pc = "done"
    /\ existing.kind = "no_column"
    /\ Len(sliced_df) = 3 /\ \E k \in 1..3 : sliced_df[k] = NULL
    /\ Len(future_to_url) = 2

\* ------------------------------------------------- redirect_resolver.py: resuming

\* The URLs of the slice whose Final URL is empty in the snapshot the run found.
LeftUnresolved ==
    {sliced_df[k] : k \in 1..Len(sliced_df)} \ ({NULL} \cup
        {existing.rows[k].url : k \in {j \in 1..Len(existing.rows) :
                                          existing.rows[j].final # NoFinal}})

\* C21 (as claimed): the run after a run that was stopped past a checkpoint
\* hands every URL the snapshot left unresolved to a worker, and when it is
\* over each of them has its Final URL in the output, unless its worker raised.
C21_UnresolvedResolvedOnResume ==
    (prog = "rr" /\ existing.kind = "table") =>
        /\ rr_pc \in {"as_completed", "done"} =>
              \A u \in LeftUnresolved :
                  \E k \in 1..Len(future_to_url) : future_to_url[k].url = u
        /\ rr_pc = "done" =>
              \A u \in LeftUnresolved :
                  \/ \E k \in 1..Len(output_file.rows) :
                        output_file.rows[k].url = u /\ output_file.rows[k].final = FinalOf(u)
                  \/ \E k \in 1..Len(results) :
                        results[k].key = u /\ results[k].value = NoFinal

\* ------------------------------------------------- both crawlers: page order

\* The walk has asked for a listing page and has no answer yet.
ListingInFlight(c) ==
    IF prog = "cwr" THEN conf[c].pc = "listing"
    ELSE walker[c].pc \in {"get", "failed"} /\ walker[c].i = 0

\* The item was dispatched and is through: it left a row or a failure record.
ItemThrough(link) ==
    IF prog = "cwr" THEN RowMade(link) \/ FailuresFor(link) # {}
    ELSE ScRowMade(link) \/ ScFailuresFor(link) # {}

\* C22: in both crawlers the listing fetches of a collection are the pages
\* 1, 2, 3, ... in that order, each once; a listing fetch in flight is for the
\* page after the last one answered; and once the walk is past page N, every
\* item of page N has been dispatched and is through.
C22_PagesInOrderAfterItems ==
    \A c \in Coll :
        /\ \A j \in 1..Len(listing_log[c]) : listing_log[c][j].page = j
        /\ ListingInFlight(c) => WalkPage(c) = Len(listing_log[c]) + 1
        /\ \A j \in 1..Len(listing_log[c]) :
              WalkPage(c) > j =>
                  \A i \in 1..listing_log[c][j].n : ItemThrough(ArticleUrl(c, j, i))

\* C22 witness: cwr.py asks for page 3 of a collection whose page 2 held two
\* items.
C22_Witness ==
    /\ prog = "cwr"
    /\ \E c \in Coll :
          /\ conf[c].pc = "listing" /\ conf[c].page = 3
          /\ Len(listing_log[c]) = 2
          /\ listing_log[c][2].n = 2

\* The same in scr.py.
C22_WitnessScr ==
    /\ prog = "scr"
    /\ \E c \in Coll :
          /\ walker[c].pc = "get" /\ walker[c].i = 0 /\ walker[c].page = 3
          /\ Len(listing_log[c]) = 2
          /\ listing_log[c][2].n = 2

\* ------------------------------------------------- cwr.py: pacing

\* C23 (as claimed): the requests of the items of a page begin at least one
\* pacing sleep apart, item i + 1 after item i.
C23_ItemsStartedApart ==
    \A c \in Coll :
        \A i \in 1..(Len(conf[c].started) - 1) :
            conf[c].started[i + 1] > conf[c].started[i]

\* ------------------------------------------------- scr.py: flushes

\* The walker is in its page loop and not in a flush.
InLoop(w) == w.pc \in {"get", "failed"}

\* The walker is in the flush of the loop (lines 199-203).
InLoopFlush(w) == w.pc \in {"extend", "extending", "save", "saving"} /\ w.after = "next"

\* The walker is in its closing flush (lines 208-211).
InClosingFlush(w) == w.pc \in {"extend", "extending", "save", "saving"} /\ w.after = "done"

\* C24: in a run of scr.py over one collection, with t = save_every: the
\* walker flushes when its local_rows holds t rows, right after the record
\* that made them t, and hands exactly those t rows to the file; between
\* flushes it holds fewer than t and the file a multiple of t; the closing
\* flush of a walk that returns writes the n mod t rows left, when there are
\* any, and the file then holds the n records of the walk.
C24_FlushEverySaveEvery ==
    (prog = "scr" /\ Len(ids) = 1 /\ main_pc \in {"walking", "done"}) =>
        LET c == ids[1]
            w == walker[c]
            t == args.save_every
            n == Discovered(c) - ItemFailuresOf(c) IN
        /\ InLoop(w) => Len(w.local_rows) < t /\ Len(DataRows) % t = 0
        /\ InLoopFlush(w) =>
              /\ Len(w.local_rows) = t
              /\ w.local_rows[t] = ScRow(c, Target(c))
              /\ w.pc \in {"extend", "extending"} => Len(DataRows) % t = 0
              /\ w.pc \in {"save", "saving"} =>
                    result_rows = w.local_rows /\ Len(DataRows) % t = 0
        /\ InClosingFlush(w) =>
              /\ Len(w.local_rows) = n % t /\ n % t # 0
              /\ w.pc \in {"save", "saving"} => result_rows = w.local_rows
        /\ w.pc = "done" => result_rows = <<>> /\ Len(DataRows) = n

\* C24 witness: with save_every = t the walk made t + 1 records and returned:
\* a flush after record t and a closing flush of one row.
C24_Witness ==
    /\ prog = "scr" /\ Len(ids) = 1
    /\ walker[ids[1]].pc = "done"
    /\ Len(DataRows) = args.save_every + 1
    /\ Len(walker[ids[1]].local_rows) = 1

\* ------------------------------------------------- scr.py: the locks

\* The walkers inside a with result_lock block, and inside the with
\* failed_urls_lock block of retry_get.
InResultSection == {c \in Coll : walker[c].pc \in {"extending", "saving"}}
InFailedSection == {c \in Coll : walker[c].pc = "failed"}

\* The walkers that take the step.
Acting == {c \in Coll : walker'[c] # walker[c]}

\* C25: in scr.py, under every interleaving of the walkers, a walker inside a
\* with result_lock block holds result_lock and is alone there, so no two are
\* in the write section of save_partial_results together; a walker inside the
\* with failed_urls_lock block holds failed_urls_lock and is alone there; and
\* every step of the walk that changes result_rows or the output file is taken
\* by the holder of result_lock, every step that changes failed_urls by the
\* holder of failed_urls_lock.
C25_LockDiscipline ==
    /\ [](prog = "scr" =>
            /\ \A c \in InResultSection : result_lock = c
            /\ \A c \in InFailedSection : failed_urls_lock = c
            /\ Cardinality(InResultSection) <= 1
            /\ Cardinality(InFailedSection) <= 1
            /\ InResultSection = {} => result_lock = 0
            /\ InFailedSection = {} => failed_urls_lock = 0)
    /\ [][(prog = "scr" /\ main_pc = "walking") =>
            /\ (result_rows' # result_rows \/ args_output' # args_output) =>
                  result_lock # 0 /\ Acting = {result_lock}
            /\ failed_urls' # failed_urls =>
                  failed_urls_lock # 0 /\ Acting = {failed_urls_lock}]_vars

\* C25 witness: one walker writes the output under result_lock while another
\* waits for the lock with rows of its own.
C25_Witness ==
    /\ prog = "scr"
    /\ \E c, d \in Coll :
          /\ c # d
          /\ walker[c].pc = "saving" /\ result_lock = c /\ result_rows # <<>>
          /\ walker[d].pc \in {"extend", "save"}
====
